---- MODULE Spec2Model ----
(***************************************************************************)
(* Escape-time (Mandelbrot) engine of py-rust-mandel: the scalar kernel,   *)
(* the sequential and the row-parallel entry points of src/lib.rs and the  *)
(* 8-lane kernel and entry point of src/simd_par.rs.                       *)
(*                                                                         *)
(* All coordinates are IEEE-754 binary32 values (Rust f32).  A value is a  *)
(* record [cls, sign, man, exp]: cls "fin" stands for                      *)
(* (-1)^sign * man * 2^exp with man < 2^24, either normal                  *)
(* (man >= 2^23, FExpMin <= exp <= FExpMax) or subnormal/zero              *)
(* (man < 2^23, exp = FExpMin); cls "inf" and "nan" are the infinities and *)
(* the NaNs.  Every operation rounds to nearest, ties to even, as the      *)
(* hardware does.                                                          *)
(***************************************************************************)
EXTENDS Integers, Sequences, FiniteSets

\* ------------------------------------------------------------ binary32

\* f32: 24 significant bits, least exponent of a unit in the last place
\* -149, greatest 104 ((2^24 - 1) * 2^104 is f32::MAX).
FManBits == 24
FExpMin == -149
FExpMax == 104
\* Extra low-order bits kept while aligning the operands of a sum.
FGuardBits == 5
\* Bits of the 48-bit product dropped before rounding (kept as a sticky bit).
FMulDrop == 19
\* The long division produces FDivSteps groups of FDivChunk quotient bits.
FDivChunk == 7
FDivSteps == 4
\* Bits of one half of a significand in the schoolbook product.
FHalfBits == 12

Pow2(k) == 2 ^ k

Max2(a, b) == IF a >= b THEN a ELSE b

\* Number of bits of n, 0 <= n < 2^30.
BitLen(n) == CHOOSE k \in 0..30 : n < Pow2(k) /\ (k = 0 \/ n >= Pow2(k - 1))

FNaN == [cls |-> "nan", sign |-> 0, man |-> 0, exp |-> 0]

FInf(s) == [cls |-> "inf", sign |-> s, man |-> 0, exp |-> 0]

FZero(s) == [cls |-> "fin", sign |-> s, man |-> 0, exp |-> FExpMin]

FFin(s, m, e) == [cls |-> "fin", sign |-> s, man |-> m, exp |-> e]

IsNaN(a) == a.cls = "nan"

IsInf(a) == a.cls = "inf"

IsZero(a) == a.cls = "fin" /\ a.man = 0

SignXor(a, b) == IF a.sign = b.sign THEN 0 ELSE 1

\* n with its lowest bit set when bits were lost below it (a sticky bit).
Jam(n, lost) == IF lost /\ n % 2 = 0 THEN n + 1 ELSE n

\* The f32 nearest to (-1)^s * M * 2^e (ties to even), 0 <= M < 2^30;
\* overflow gives an infinity, underflow a subnormal or a zero.
RoundPack(s, M, e) ==
    IF M = 0 THEN FZero(s)
    ELSE LET L == BitLen(M)
             shift == Max2(L - FManBits, FExpMin - e)
         IN  IF shift <= 0
             THEN IF e + shift > FExpMax THEN FInf(s)
                  ELSE FFin(s, M * Pow2(0 - shift), e + shift)
             ELSE IF shift >= 31 THEN FZero(s)
             ELSE LET q == M \div Pow2(shift)
                      r == M % Pow2(shift)
                      half == Pow2(shift - 1)
                      up == r > half \/ (r = half /\ q % 2 = 1)
                      q1 == IF up THEN q + 1 ELSE q
                      m2 == IF q1 = Pow2(FManBits) THEN Pow2(FManBits - 1) ELSE q1
                      e2 == IF q1 = Pow2(FManBits) THEN e + shift + 1 ELSE e + shift
                  IN  IF e2 > FExpMax THEN FInf(s)
                      ELSE IF m2 = 0 THEN FZero(s)
                      ELSE FFin(s, m2, e2)

\* A finite non-zero value with its significand shifted up to 24 bits
\* (the exponent may then lie below FExpMin: an internal form).
Normalize(a) ==
    IF a.man >= Pow2(FManBits - 1) THEN [man |-> a.man, exp |-> a.exp]
    ELSE LET up == FManBits - BitLen(a.man)
         IN  [man |-> a.man * Pow2(up), exp |-> a.exp - up]

\* `n as f32` for an integer n, |n| < 2^30.
FromInt(n) == IF n < 0 THEN RoundPack(1, 0 - n, 0) ELSE RoundPack(0, n, 0)

FNeg(a) == IF IsNaN(a) THEN a ELSE [a EXCEPT !.sign = 1 - a.sign]

\* |a| < |b| for non-NaN values.
MagLt(a, b) ==
    IF IsInf(a) THEN FALSE
    ELSE IF IsInf(b) THEN TRUE
    ELSE a.exp < b.exp \/ (a.exp = b.exp /\ a.man < b.man)

\* a == b of f32 (0.0 == -0.0, NaN equals nothing).
FEq(a, b) == /\ ~IsNaN(a) /\ ~IsNaN(b)
             /\ (a = b \/ (IsZero(a) /\ IsZero(b)))

\* a < b of f32 (false when either is NaN).
FLt(a, b) ==
    /\ ~IsNaN(a) /\ ~IsNaN(b)
    /\ ~(IsZero(a) /\ IsZero(b))
    /\ IF a.sign = 0
       THEN b.sign = 0 /\ MagLt(a, b)
       ELSE b.sign = 0 \/ MagLt(b, a)

\* a <= b of f32 (false when either is NaN).
FLe(a, b) == FLt(a, b) \/ FEq(a, b)

\* a + b of f32.
FAdd(a, b) ==
    IF IsNaN(a) \/ IsNaN(b) THEN FNaN
    ELSE IF IsInf(a) THEN (IF IsInf(b) /\ a.sign # b.sign THEN FNaN ELSE a)
    ELSE IF IsInf(b) THEN b
    ELSE IF IsZero(a) /\ IsZero(b)
         THEN FZero(IF a.sign = 1 /\ b.sign = 1 THEN 1 ELSE 0)
    ELSE IF IsZero(a) THEN b
    ELSE IF IsZero(b) THEN a
    ELSE LET big == IF MagLt(a, b) THEN b ELSE a
             sml == IF MagLt(a, b) THEN a ELSE b
             d == big.exp - sml.exp
             A == big.man * Pow2(FGuardBits)
             full == sml.man * Pow2(FGuardBits)
             B == IF d >= 30 THEN 1
                  ELSE Jam(full \div Pow2(d), full % Pow2(d) # 0)
         IN  IF big.sign = sml.sign
             THEN RoundPack(big.sign, A + B, big.exp - FGuardBits)
             ELSE IF A = B THEN FZero(0)
             ELSE RoundPack(big.sign, A - B, big.exp - FGuardBits)

\* a - b of f32.
FSub(a, b) == FAdd(a, FNeg(b))

\* a * b of f32: the exact 48-bit product of the significands from 12-bit
\* halves, cut to 29 bits with a sticky bit, then rounded.
FMul(a, b) ==
    IF IsNaN(a) \/ IsNaN(b) THEN FNaN
    ELSE IF IsInf(a) \/ IsInf(b)
         THEN (IF IsZero(a) \/ IsZero(b) THEN FNaN ELSE FInf(SignXor(a, b)))
    ELSE IF IsZero(a) \/ IsZero(b) THEN FZero(SignXor(a, b))
    ELSE LET na == Normalize(a)
             nb == Normalize(b)
             H == Pow2(FHalfBits)
             ah == na.man \div H
             al == na.man % H
             bh == nb.man \div H
             bl == nb.man % H
             mid == ah * bl + al * bh
             lo2 == al * bl + (mid % H) * H
             low == lo2 % (H * H)
             hi == ah * bh + mid \div H + lo2 \div (H * H)
             M == Jam(hi * Pow2(FManBits - FMulDrop) + low \div Pow2(FMulDrop),
                      low % Pow2(FMulDrop) # 0)
         IN  RoundPack(SignXor(a, b), M, na.exp + nb.exp + FMulDrop)

\* <<floor(n * 2^(FDivChunk * k) / d), remainder>> by long division in
\* k steps of FDivChunk bits, 0 <= n < 2 * d, d < 2^24.
RECURSIVE LongDiv(_, _, _)
LongDiv(n, d, k) ==
    IF k = 0 THEN <<n \div d, n % d>>
    ELSE LET p == LongDiv(n, d, k - 1)
             r == p[2] * Pow2(FDivChunk)
         IN  <<p[1] * Pow2(FDivChunk) + r \div d, r % d>>

\* a / b of f32.
FDiv(a, b) ==
    IF IsNaN(a) \/ IsNaN(b) THEN FNaN
    ELSE IF IsInf(a) THEN (IF IsInf(b) THEN FNaN ELSE FInf(SignXor(a, b)))
    ELSE IF IsInf(b) THEN FZero(SignXor(a, b))
    ELSE IF IsZero(b) THEN (IF IsZero(a) THEN FNaN ELSE FInf(SignXor(a, b)))
    ELSE IF IsZero(a) THEN FZero(SignXor(a, b))
    ELSE LET na == Normalize(a)
             nb == Normalize(b)
             p == LongDiv(na.man, nb.man, FDivSteps)
         IN  RoundPack(SignXor(a, b), Jam(p[1], p[2] # 0),
                       na.exp - nb.exp - FDivChunk * FDivSteps)

\* ------------------------------------------------------------ inputs

\* Largest |coordinate| of a viewport corner, largest non-lane width,
\* largest height, largest iteration budget, largest thread-pool size and
\* largest number of cells of a grid explored.
MaxCoord == 2
MaxWidth == 2
MaxHeight == 2
MaxIters == 3
MaxThreads == 2
MaxCells == 16
\* Cells of the grids computed with the budget U8Max.
MaxDeepCells == 2

\* f32x8 / u32x8 / m32x8: f32s::lanes().
LANES == 8

\* u8 counts of src/lib.rs wrap at 2^8.
U8Mod == 256

\* The largest u8, the largest budget the scalar entry points accept.
U8Max == U8Mod - 1

\* Content of a buffer cell that no statement has written yet
\* (Vec::with_capacity + set_len leaves the cells uninitialized).
Uninit == -1

Strategies == {"scalar", "par", "simd"}

\* <<min, max>> pairs offered for each axis: proper spans and a zero span.
XRanges == {<<0 - MaxCoord, MaxCoord>>, <<0, 0>>}

YRanges == {<<0 - MaxCoord, MaxCoord>>, <<0, MaxCoord>>, <<0, 0>>}

Widths == (0..MaxWidth) \cup {LANES}

Heights == 0..MaxHeight

Budgets == (0..MaxIters) \cup {U8Max}

VARIABLES
    strategy,   \* entry point called: compute_mandelbrot, _par or generate
    min_x, max_x, min_y, max_y,   \* viewport arguments (f32)
    width, height, iters,         \* resolution and budget arguments
    threads,    \* size of the rayon thread pool
    pc,         \* "call", "run", "done" (returned) or "panic"
    fault,      \* which check panicked: "none", "index", "chunk_size", "width"
    dx, dy,     \* the locals dx and dy
    xs,         \* generate's buffer of initial x values, one per column
    out,        \* the output buffer, flat, row-major, one count per cell
    writers,    \* per cell, the tasks whose store statement wrote it, in order
    row, col, x, y,   \* loop variables of compute_mandelbrot
    tasks       \* the row tasks of par_chunks_mut(..).enumerate().for_each

vars == <<strategy, min_x, max_x, min_y, max_y, width, height, iters, threads,
          pc, fault, dx, dy, xs, out, writers, row, col, x, y, tasks>>

args == <<strategy, min_x, max_x, min_y, max_y, width, height, iters, threads>>

\* ------------------------------------------------------------ scalar kernel

\* struct Complex { a, b } of lib.rs.
Cx(a, b) == [a |-> a, b |-> b]

\* impl Add for Complex.
CAdd(p, q) == Cx(FAdd(p.a, q.a), FAdd(p.b, q.b))

\* impl Mul for Complex.
CMul(p, q) == Cx(FSub(FMul(p.a, q.a), FMul(p.b, q.b)),
                 FAdd(FMul(p.a, q.b), FMul(p.b, q.a)))

\* Complex::arg_sq.
arg_sq(p) == FAdd(FMul(p.a, p.a), FMul(p.b, p.b))

\* The literal 4.0.
Four == FromInt(4)

\* A loop condition that does not stop a counter that has reached the
\* largest u8, so that the next increment wraps it to 0.
KernelContinuePastMax(i, max, z) == (i < max \/ i = U8Max) /\ FLt(arg_sq(z), Four)

\* The loop condition: i < max && z.arg_sq() < 4.0.
KernelContinue(i, max, z) == i < max /\ FLt(arg_sq(z), Four)

\* The locals of mandelbrot_kernel before its loop: z = 0, c = (x, y),
\* i = 0u8.  The field n is an observation, not a local of the code: the
\* number of times the loop body has run, kept without a width.
KernelStart(px, py) ==
    [z |-> Cx(FZero(0), FZero(0)), c |-> Cx(px, py), i |-> 0, n |-> 0]

\* The loop body: z = z * z + c; i += 1, the counter being a u8.
KernelBody(s) ==
    [s EXCEPT !.z = CAdd(CMul(s.z, s.z), s.c),
              !.i = (s.i + 1) % U8Mod,
              !.n = s.n + 1]

\* The number of iterations up to which the loop is followed for the
\* budget max: one more than the budget.
KernelFuel(max) == max + 1

\* The while loop of mandelbrot_kernel from the state s: the state in
\* which the loop exits.  The iterations are run half by half (the first
\* fuel \div 2, then the rest from the state they reach), which is the
\* same sequence of bodies and tests as one after the other and keeps the
\* evaluation shallow for a budget of 255.
RECURSIVE KernelLoop(_, _, _)
KernelLoop(s, max, fuel) ==
    IF ~KernelContinue(s.i, max, s.z) THEN s
    ELSE IF fuel = 1 THEN KernelBody(s)
    ELSE CHOOSE r \in {KernelLoop(mid, max, fuel - fuel \div 2) :
                          mid \in {KernelLoop(s, max, fuel \div 2)}} : TRUE

\* mandelbrot_kernel(x, y, max): return i.
mandelbrot_kernel(px, py, max) ==
    KernelLoop(KernelStart(px, py), max, KernelFuel(max)).i

\* ------------------------------------------------------------ lane kernel

Lanes == 0..(LANES - 1)

\* const THRESHOLD: f32 = 4.0.
THRESHOLD == FromInt(4)

\* simd_par::Complex { real, imag }: one f32 per lane in each register.
SimdComplex(re, im) == [real |-> re, imag |-> im]

\* f32s::splat(v).
Splat(v) == [l \in Lanes |-> v]

\* One lane of Complex::undiverged: x * x + y * y <= THRESHOLD.
LaneUndiverged(re, im) == FLe(FAdd(FMul(re, re), FMul(im, im)), THRESHOLD)

\* Complex::undiverged: the mask of the lanes that have not diverged.
Undiverged(z) == [l \in Lanes |-> LaneUndiverged(z.real[l], z.imag[l])]

\* m32s::none(): no lane of the mask is set.
MaskNone(mask) == \A l \in Lanes : ~mask[l]

\* An exit test that leaves the loop as soon as one lane has diverged.
LoopBreaksOnAny(z) == \E l \in Lanes : ~Undiverged(z)[l]

\* The exit test of the loop of count: if undiverged.none() { break }.
LoopBreaks(z) == MaskNone(Undiverged(z))

\* count += undiverged.select(splat(1), splat(0)).
MaskedIncrement(count, mask) ==
    [l \in Lanes |-> IF mask[l] THEN count[l] + 1 ELSE count[l]]

\* MandelbrotIter::next, real part of one lane: c_x + (xx - yy).
LaneNextReal(cre, re, im) == FAdd(cre, FSub(FMul(re, re), FMul(im, im)))

\* MandelbrotIter::next, imaginary part of one lane: c_y + (xy + xy).
LaneNextImag(cim, re, im) == FAdd(cim, FAdd(FMul(re, im), FMul(re, im)))

\* MandelbrotIter::next for the sequence started at `start`: the value
\* after `current`, lane by lane.
IterNext(start, current) ==
    SimdComplex(
        [l \in Lanes |-> LaneNextReal(start.real[l], current.real[l], current.imag[l])],
        [l \in Lanes |-> LaneNextImag(start.imag[l], current.real[l], current.imag[l])])

\* ------------------------------------------------------------ entry points

\* (max - min) / (n as f32): the pixel step of one axis.
PixelStep(lo, hi, n) == FDiv(FSub(hi, lo), FromInt(n))

\* min + d * (k as f32): the coordinate of column or row k in the parallel
\* entry points.
Coord(lo, d, k) == FAdd(lo, FMul(d, FromInt(k)))

\* A row coordinate taken one row too far: min_y + dy * (i + 1).
RowYNext(i) == Coord(min_y, dy, i + 1)

\* let y = min_y + dy * i as f32 at the head of row task i.
RowY(i) == Coord(min_y, dy, i)

\* let x = min_x + dx * j as f32 in compute_mandelbrot_par.
ColX(j) == Coord(min_x, dx, j)

\* A buffer of n cells that nothing has written (with_capacity + set_len).
FreshBuffer(n) == [k \in 0..(n - 1) |-> Uninit]

NoWriters(n) == [k \in 0..(n - 1) |-> <<>>]

\* Number of chunks par_chunks_mut(size) cuts a slice of n elements into.
NumChunks(n, size) == (n + size - 1) \div size

\* Chunks that overlap: each starts one element before the end of the
\* previous one.
ChunkStartOverlapping(i, size) == i * (size - 1)

\* Index in the slice of the first element of chunk i.
ChunkStart(i, size) == i * size

\* Length of chunk i of a slice of n elements.
ChunkLen(i, n, size) == IF (i + 1) * size <= n THEN size ELSE n - i * size

\* A width check that accepts every width.
LanesDivideAlways(w) == w >= 0

\* The assertion of generate: width % block_size == 0.
LanesDivide(w) == w % LANES = 0

\* The bounds check of t[[r, c]] on the height-by-width buffer.
InBounds(r, c) == r < height /\ c < width

\* Row-major offset of t[[r, c]].
FlatIndex(r, c) == r * width + c

IdleTask == [st |-> "idle", j |-> 0, y |-> FZero(0), ph |-> "begin", k |-> 0,
             z |-> <<>>, count |-> <<>>]

Active == {i \in DOMAIN tasks : tasks[i].st = "active"}

\* Cell k of the buffer receives value v from task i.
Store(k, v, i) ==
    /\ out' = [out EXCEPT ![k] = v]
    /\ writers' = [writers EXCEPT ![k] = Append(@, i)]

Init ==
    /\ strategy \in Strategies
    /\ \E vx \in XRanges, vy \in YRanges :
          /\ min_x = FromInt(vx[1]) /\ max_x = FromInt(vx[2])
          /\ min_y = FromInt(vy[1]) /\ max_y = FromInt(vy[2])
    /\ width \in Widths
    /\ height \in Heights
    /\ width * height <= MaxCells
    /\ iters \in Budgets
    /\ iters > MaxIters => width * height <= MaxDeepCells
    /\ threads \in (IF strategy = "scalar" THEN {1} ELSE 1..MaxThreads)
    /\ pc = "call"
    /\ fault = "none"
    /\ dx = FZero(0) /\ dy = FZero(0)
    /\ xs = <<>>
    \* compute_mandelbrot is handed the caller's height-by-width array; the
    \* other two allocate their own buffer.
    /\ out = FreshBuffer(IF strategy = "scalar" THEN width * height ELSE 0)
    /\ writers = NoWriters(IF strategy = "scalar" THEN width * height ELSE 0)
    /\ row = 0 /\ col = 0
    /\ x = FZero(0) /\ y = FZero(0)
    /\ tasks = <<>>

\* compute_mandelbrot up to the first iteration of its loops.
CallScalar ==
    /\ pc = "call" /\ strategy = "scalar"
    /\ dx' = PixelStep(min_x, max_x, width)
    /\ dy' = PixelStep(min_y, max_y, height)
    /\ y' = min_y
    /\ x' = min_x
    /\ row' = 0 /\ col' = 0
    /\ pc' = "run"
    /\ UNCHANGED <<args, fault, xs, out, writers, tasks>>

\* One iteration of the inner loop `for col in 0..height`: the indexed
\* store (ndarray panics on an index outside the array), x += dx, and at
\* the end of the row y += dy and the next row's x = min_x.
ScalarStep ==
    /\ pc = "run" /\ strategy = "scalar"
    /\ row < height
    /\ IF ~InBounds(row, col)
       THEN /\ pc' = "panic"
            /\ fault' = "index"
            /\ UNCHANGED <<out, writers, row, col, x, y>>
       ELSE /\ Store(FlatIndex(row, col), mandelbrot_kernel(x, y, iters), 0)
            /\ IF col + 1 < height
               THEN /\ col' = col + 1
                    /\ x' = FAdd(x, dx)
                    /\ UNCHANGED <<row, y>>
               ELSE /\ col' = 0
                    /\ x' = min_x
                    /\ row' = row + 1
                    /\ y' = FAdd(y, dy)
            /\ UNCHANGED <<pc, fault>>
    /\ UNCHANGED <<args, dx, dy, xs, tasks>>

\* The outer loop of compute_mandelbrot is over: the function returns.
ScalarReturn ==
    /\ pc = "run" /\ strategy = "scalar"
    /\ row = height
    /\ pc' = "done"
    /\ UNCHANGED <<args, fault, dx, dy, xs, out, writers, row, col, x, y, tasks>>

\* compute_mandelbrot_par up to the parallel loop: the buffer, dx, dy and
\* par_chunks_mut(width), which panics on a chunk size of zero.
CallPar ==
    /\ pc = "call" /\ strategy = "par"
    /\ out' = FreshBuffer(width * height)
    /\ writers' = NoWriters(width * height)
    /\ dx' = PixelStep(min_x, max_x, width)
    /\ dy' = PixelStep(min_y, max_y, height)
    /\ IF width = 0
       THEN /\ pc' = "panic"
            /\ fault' = "chunk_size"
            /\ UNCHANGED tasks
       ELSE /\ pc' = "run"
            /\ tasks' = [i \in 0..(NumChunks(width * height, width) - 1) |-> IdleTask]
            /\ UNCHANGED fault
    /\ UNCHANGED <<args, xs, row, col, x, y>>

\* generate up to the parallel loop: the width assertion, xs, dy, the
\* buffer of u32x8 blocks (modelled cell by cell, block b holding cells
\* LANES * b .. LANES * b + 7, which is the layout the final transmute
\* exposes) and par_chunks_mut(width_in_blocks).
CallSimd ==
    /\ pc = "call" /\ strategy = "simd"
    /\ IF ~LanesDivide(width)
       THEN /\ pc' = "panic"
            /\ fault' = "width"
            /\ UNCHANGED <<dx, dy, xs, out, writers, tasks>>
       ELSE LET width_in_blocks == width \div LANES
                len == width_in_blocks * height
            IN  /\ dx' = PixelStep(min_x, max_x, width)
                /\ xs' = [j \in 0..(width - 1) |-> Coord(min_x, dx', j)]
                /\ dy' = PixelStep(min_y, max_y, height)
                /\ out' = FreshBuffer(len * LANES)
                /\ writers' = NoWriters(len * LANES)
                /\ IF width_in_blocks = 0
                   THEN /\ pc' = "panic"
                        /\ fault' = "chunk_size"
                        /\ UNCHANGED tasks
                   ELSE /\ pc' = "run"
                        /\ tasks' = [i \in 0..(NumChunks(len, width_in_blocks) - 1)
                                        |-> IdleTask]
                        /\ UNCHANGED fault
    /\ UNCHANGED <<args, row, col, x, y>>

\* A free thread of the pool takes row task i and runs the head of the
\* closure: let y = ...
TaskStart(i) ==
    /\ pc = "run" /\ strategy \in {"par", "simd"}
    /\ tasks[i].st = "idle"
    /\ Cardinality(Active) < threads
    /\ tasks' = [tasks EXCEPT ![i] = [IdleTask EXCEPT !.st = "active", !.y = RowY(i)]]
    /\ UNCHANGED <<args, pc, fault, dx, dy, xs, out, writers, row, col, x, y>>

\* One iteration of row.iter_mut().enumerate().for_each of
\* compute_mandelbrot_par in task i: *col = mandelbrot_kernel(x, y, iters).
ParCell(i) ==
    /\ pc = "run" /\ strategy = "par"
    /\ tasks[i].st = "active"
    /\ LET t == tasks[i]
           n == ChunkLen(i, width * height, width)
       IN  /\ \E px \in {ColX(t.j)} :
                 Store(ChunkStart(i, width) + t.j,
                       mandelbrot_kernel(px, t.y, iters), i)
           /\ tasks' = [tasks EXCEPT ![i] =
                          [t EXCEPT !.j = t.j + 1,
                                    !.st = IF t.j + 1 = n THEN "done" ELSE "active"]]
    /\ UNCHANGED <<args, pc, fault, dx, dy, xs, row, col, x, y>>

\* The lanes of block b of xs.
XBlock(b) == [l \in Lanes |-> xs[LANES * b + l]]

\* The points of the block task i is at: Complex { real: xs[j], imag: y }.
StartOf(i) == SimdComplex(XBlock(tasks[i].j), Splat(tasks[i].y))

\* Task i of generate reaches block j of its row: z = Complex { x, y },
\* MandelbrotIter::new(z) and the head of count (z = start, count = 0).
BlockBegin(i) ==
    /\ pc = "run" /\ strategy = "simd"
    /\ tasks[i].st = "active" /\ tasks[i].ph = "begin"
    /\ tasks' = [tasks EXCEPT ![i] =
                   [tasks[i] EXCEPT !.ph = "loop", !.k = 0,
                                    !.z = StartOf(i),
                                    !.count = Splat(0)]]
    /\ UNCHANGED <<args, pc, fault, dx, dy, xs, out, writers, row, col, x, y>>

\* One iteration of `for _ in 0..iters` of count that does not break:
\* the masked increment and z = self.next().
LaneStep(i) ==
    /\ pc = "run" /\ strategy = "simd"
    /\ tasks[i].st = "active" /\ tasks[i].ph = "loop"
    /\ tasks[i].k < iters
    /\ ~LoopBreaks(tasks[i].z)
    /\ tasks' = [tasks EXCEPT ![i] =
                   [tasks[i] EXCEPT
                       !.k = tasks[i].k + 1,
                       !.count = MaskedIncrement(tasks[i].count,
                                                 Undiverged(tasks[i].z)),
                       !.z = IterNext(StartOf(i), tasks[i].z)]]
    /\ UNCHANGED <<args, pc, fault, dx, dy, xs, out, writers, row, col, x, y>>

\* The loop of count ends (the range is exhausted or the break is taken)
\* and *count = ... stores the block's eight counts.
BlockStore(i) ==
    /\ pc = "run" /\ strategy = "simd"
    /\ tasks[i].st = "active" /\ tasks[i].ph = "loop"
    /\ tasks[i].k = iters \/ LoopBreaks(tasks[i].z)
    /\ LET t == tasks[i]
           wib == width \div LANES
           n == ChunkLen(i, wib * height, wib)
           base == LANES * (ChunkStart(i, wib) + t.j)
       IN  /\ out' = [c \in DOMAIN out |->
                        IF c \in base..(base + LANES - 1)
                        THEN t.count[c - base] ELSE out[c]]
           /\ writers' = [c \in DOMAIN writers |->
                            IF c \in base..(base + LANES - 1)
                            THEN Append(writers[c], i) ELSE writers[c]]
           /\ tasks' = [tasks EXCEPT ![i] =
                          [t EXCEPT !.j = t.j + 1, !.ph = "begin",
                                    !.st = IF t.j + 1 = n THEN "done" ELSE "active"]]
    /\ UNCHANGED <<args, pc, fault, dx, dy, xs, row, col, x, y>>

\* for_each returns once every row task has finished; the entry point
\* then returns the buffer.
Join ==
    /\ pc = "run" /\ strategy \in {"par", "simd"}
    /\ \A i \in DOMAIN tasks : tasks[i].st = "done"
    /\ pc' = "done"
    /\ UNCHANGED <<args, fault, dx, dy, xs, out, writers, row, col, x, y, tasks>>

Next ==
    \/ CallScalar
    \/ ScalarStep
    \/ ScalarReturn
    \/ CallPar
    \/ CallSimd
    \/ \E i \in DOMAIN tasks : TaskStart(i)
    \/ \E i \in DOMAIN tasks : ParCell(i)
    \/ \E i \in DOMAIN tasks : BlockBegin(i)
    \/ \E i \in DOMAIN tasks : LaneStep(i)
    \/ \E i \in DOMAIN tasks : BlockStore(i)
    \/ Join

Spec == Init /\ [][Next]_vars

\* ------------------------------------------------------------ claims

\* The viewport and the resolution the specification calls valid.
ValidView == FLt(min_x, max_x) /\ FLt(min_y, max_y)

ValidInput == ValidView /\ width > 0 /\ height > 0

Rows == 0..(height - 1)

Cols == 0..(width - 1)

Written(k) == k \in DOMAIN out /\ out[k] # Uninit

NothingWritten == \A k \in DOMAIN writers : writers[k] = <<>>

\* The point of pixel (r, c): (min_x + dx * c, min_y + dy * r) with
\* dx = (max_x - min_x) / width and dy = (max_y - min_y) / height.
MapX(c) == FAdd(min_x, FMul(FDiv(FSub(max_x, min_x), FromInt(width)), FromInt(c)))

MapY(r) == FAdd(min_y, FMul(FDiv(FSub(max_y, min_y), FromInt(height)), FromInt(r)))

\* |c|^2 of the point (px, py).
NormSq(px, py) == FAdd(FMul(px, px), FMul(py, py))

\* The count the scalar kernel gives pixel (r, c).
KernelAt(r, c) ==
    CHOOSE v \in {mandelbrot_kernel(px, py, iters) : px \in {MapX(c)}, py \in {MapY(r)}} : TRUE

\* The point of cell k of generate's buffer: the x of its column from xs,
\* the y of its row.
CellX(k) == xs[k % width]

CellY(k) == Coord(min_y, dy, k \div width)

\* The number of steps z <- z^2 + c, from z = 0, after which |z|^2 > 4.0
\* first holds, capped at n: k when |z|^2 first exceeds 4.0 after step k,
\* n when it does not within n steps.  EscapeRun follows the steps from
\* the state s (z after k steps, esc whether |z|^2 has exceeded 4.0),
\* half by half as KernelLoop does.
EscapeStart(px, py) ==
    [z |-> Cx(FZero(0), FZero(0)), c |-> Cx(px, py), k |-> 0, esc |-> FALSE]

EscapeAdvance(s) ==
    [s EXCEPT !.z = CAdd(CMul(s.z, s.z), s.c),
              !.k = s.k + 1,
              !.esc = FLt(Four, arg_sq(CAdd(CMul(s.z, s.z), s.c)))]

RECURSIVE EscapeRun(_, _, _)
EscapeRun(s, n, fuel) ==
    IF s.esc \/ s.k = n THEN s
    ELSE IF fuel = 1 THEN EscapeAdvance(s)
    ELSE CHOOSE r \in {EscapeRun(mid, n, fuel - fuel \div 2) :
                          mid \in {EscapeRun(s, n, fuel \div 2)}} : TRUE

EscapeStep(px, py, n) == EscapeRun(EscapeStart(px, py), n, n + 1).k

\* The count of one lane iterated on its own: the number of leading values
\* of the sequence from (re, im), for the point (cre, cim), that are
\* undiverged, capped at n.
RECURSIVE AloneCount(_, _, _, _, _)
AloneCount(cre, cim, re, im, n) ==
    IF n = 0 \/ ~LaneUndiverged(re, im) THEN 0
    ELSE 1 + AloneCount(cre, cim, LaneNextReal(cre, re, im),
                        LaneNextImag(cim, re, im), n - 1)

\* C1: for a valid viewport and resolution whose width the lane width
\* divides, the grid an entry point returns holds in every cell (row, col)
\* the count compute_mandelbrot_par gives that cell, so that the three
\* entry points return the same grid.
C1_StrategiesAgree ==
    (pc = "done" /\ ValidInput /\ width % LANES = 0) =>
        /\ DOMAIN out = 0..(width * height - 1)
        /\ \A r \in Rows, c \in Cols : out[r * width + c] = KernelAt(r, c)

\* C2: every count the scalar kernel produces (the cells written by
\* compute_mandelbrot_par) is the number of steps after which |z|^2 first
\* exceeds 4.0, capped at the budget.
C2_KernelCountsStepsToEscape ==
    strategy = "par" =>
        \A r \in Rows, c \in Cols :
            Written(r * width + c) =>
                \A px \in {MapX(c)}, py \in {MapY(r)} :
                    out[r * width + c] = EscapeStep(px, py, iters)

\* C3: compute_mandelbrot never indexes outside the height-by-width buffer
\* and, for width > 0 and height > 0, has written every cell exactly once
\* with the count of its pixel when it returns.
C3_ScalarCoversBuffer ==
    (strategy = "scalar" /\ width > 0 /\ height > 0) =>
        /\ fault # "index"
        /\ pc = "done" =>
              \A r \in Rows, c \in Cols :
                  /\ Len(writers[r * width + c]) = 1
                  /\ out[r * width + c] = KernelAt(r, c)

\* C4: with a budget of at least 1, a cell whose point has |c|^2 > 4.0
\* holds, in the lane-vectorized grid as in the scalar one, the scalar
\* kernel's count k, and 1 <= k <= budget.
C4_ImmediateDivergenceAgrees ==
    (strategy \in {"par", "simd"} /\ iters >= 1) =>
        \A r \in Rows, c \in Cols :
            (Written(r * width + c) /\ FLt(Four, NormSq(MapX(c), MapY(r)))) =>
                /\ out[r * width + c] = KernelAt(r, c)
                /\ out[r * width + c] \in 1..iters

\* C5: in the two parallel entry points a cell is written only by the
\* task of its own row and by no two tasks, and the call returns only
\* after every task has finished, with each of the width * height cells
\* written exactly once.
C5_RowTasksDisjoint ==
    strategy \in {"par", "simd"} =>
        /\ \A k \in DOMAIN writers :
              /\ Len(writers[k]) <= 1
              /\ \A n \in 1..Len(writers[k]) : writers[k][n] = k \div width
        /\ pc = "done" =>
              /\ \A i \in DOMAIN tasks : tasks[i].st = "done"
              /\ DOMAIN out = 0..(width * height - 1)
              /\ \A k \in DOMAIN out : Len(writers[k]) = 1 /\ out[k] # Uninit

\* C5 witness: a parallel call of two or more rows run by two threads has
\* returned.
C5_Witness ==
    /\ pc = "done" /\ strategy \in {"par", "simd"}
    /\ height >= 2 /\ width > 0 /\ threads >= 2
    /\ \A k \in DOMAIN out : Len(writers[k]) = 1

\* C6: whatever the pool size and the order of the row tasks, the grid
\* compute_mandelbrot_par returns holds in each cell (row, col) the scalar
\* kernel's count for the point (min_x + dx * col, min_y + dy * row).
C6_ParGridDeterministic ==
    (strategy = "par" /\ pc = "done") =>
        /\ DOMAIN out = 0..(width * height - 1)
        /\ \A r \in Rows, c \in Cols : out[r * width + c] = KernelAt(r, c)

\* C6 witness: compute_mandelbrot_par has returned a grid of several rows
\* and columns, computed by two threads, whose cells differ.
C6_Witness ==
    /\ pc = "done" /\ strategy = "par"
    /\ height >= 2 /\ width >= 2 /\ threads >= 2
    /\ \E k1, k2 \in DOMAIN out : out[k1] # out[k2]

\* The state in which the loop of the scalar kernel exits for pixel
\* (r, c).
KernelExitAt(r, c) ==
    CHOOSE e \in {KernelLoop(KernelStart(px, py), iters, KernelFuel(iters)) :
                     px \in {MapX(c)}, py \in {MapY(r)}} : TRUE

\* C7: every count produced lies in 0..budget: every written cell, every
\* lane count while the lane kernel runs, and every cell of the grid a
\* parallel entry point returns; and the scalar kernel's 8-bit counter
\* never wraps: for every cell compute_mandelbrot_par has written, the
\* loop of the kernel has exited by its own condition, its body has run
\* at most budget times, and the u8 stored in the cell is the number of
\* times the body has run.
C7_CountsInRange ==
    /\ \A k \in DOMAIN out : out[k] # Uninit => out[k] \in 0..iters
    /\ \A i \in DOMAIN tasks :
          tasks[i].ph = "loop" => \A l \in Lanes : tasks[i].count[l] \in 0..iters
    /\ (pc = "done" /\ strategy \in {"par", "simd"}) =>
          \A k \in 0..(width * height - 1) : k \in DOMAIN out /\ out[k] \in 0..iters
    /\ strategy = "par" =>
          \A r \in Rows, c \in Cols :
              Written(r * width + c) =>
                  \A e \in {KernelExitAt(r, c)} :
                      /\ ~KernelContinue(e.i, iters, e.z)
                      /\ e.n <= iters
                      /\ out[r * width + c] = e.n

\* C7 witness: compute_mandelbrot_par has returned, for the budget 255, a
\* grid in which the counter of one cell reached 255 and the counter of
\* another stopped below it.
C7_Witness ==
    /\ pc = "done" /\ strategy = "par" /\ iters = U8Max
    /\ \E k1, k2 \in DOMAIN out : out[k1] = U8Max /\ out[k2] \in 1..(U8Max - 1)

\* C8: generate called with a width the lane width does not divide fails
\* on its width check before anything is computed: no buffer is allocated,
\* no task is started, no cell is written and the call never returns a
\* grid.
C8_WidthRejected ==
    (strategy = "simd" /\ width % LANES # 0) =>
        /\ pc \in {"call", "panic"}
        /\ pc = "panic" => fault = "width"
        /\ DOMAIN out = {}
        /\ DOMAIN tasks = {}

\* C8 witness: generate has failed on a width of 1 or 2.
C8_Witness ==
    /\ strategy = "simd" /\ width % LANES # 0
    /\ pc = "panic" /\ fault = "width"

\* C9: a call with width = 0, height = 0 or a viewport of zero or negative
\* span is rejected before any computation: it never returns a grid and
\* writes no cell.
C9_InvalidRejected ==
    ~ValidInput => (pc \in {"call", "panic"} /\ NothingWritten)

\* C10: in the lane kernel each lane's count is the count of that lane
\* iterated on its own: after k steps of the loop it is the number of
\* leading undiverged values among the first k (so a diverged lane is not
\* incremented again), the stored count is that number for the whole
\* budget (so the loop exits early only when no lane is left), and a lane
\* at 0+0i reports the budget.
C10_LanesIndependent ==
    strategy = "simd" =>
        /\ \A i \in DOMAIN tasks :
              (tasks[i].st = "active" /\ tasks[i].ph = "loop") =>
                  \A l \in Lanes :
                      tasks[i].count[l] =
                          AloneCount(xs[LANES * tasks[i].j + l], tasks[i].y,
                                     xs[LANES * tasks[i].j + l], tasks[i].y,
                                     tasks[i].k)
        /\ pc = "done" =>
              \A k \in DOMAIN out :
                  \A px \in {CellX(k)}, py \in {CellY(k)} :
                      /\ out[k] = AloneCount(px, py, px, py, iters)
                      /\ (IsZero(px) /\ IsZero(py)) => out[k] = iters

\* C10 witness: generate has returned a grid in which one block holds a
\* lane that never diverged, a lane that diverged after some steps and a
\* lane that diverged at once.
C10_Witness ==
    /\ pc = "done" /\ strategy = "simd" /\ iters >= 2
    /\ \E b \in DOMAIN out :
          /\ b % LANES = 0
          /\ \E l1, l2, l3 \in Lanes :
                /\ out[b + l1] = iters
                /\ out[b + l2] \in 1..(iters - 1)
                /\ out[b + l3] = 0

====
